---- MODULE Spec2Model ----
(***************************************************************************)
(* Model of the generation-scoped stream lifecycle of the camera client    *)
(* (components/camera/client.go): client.Stream, the background worker it  *)
(* spawns, and client.Close, interleaved at the granularity of the         *)
(* synchronisation operations they perform (mutex, channel close,          *)
(* sync.WaitGroup Add/Done/Wait, select).                                  *)
(*                                                                         *)
(* sync.WaitGroup is modelled with its counter, its waiter count and its   *)
(* semaphore, because Stream calls Add(1) outside the mutex: an Add that   *)
(* lands while Close is inside Wait is a documented misuse whose outcomes  *)
(* (counted, not counted, or a runtime panic) are all kept.                *)
(* A panic on the goroutine of a Stream or Close call is not recovered     *)
(* anywhere in client.go; it terminates the program (crashed).             *)
(***************************************************************************)
EXTENDS Integers, Sequences, FiniteSets, TLC

\* Number of Stream calls made on the client.
NumStreams == 2
\* Number of Close calls made on the client.
NumCloses == 2
\* Number of frames the streams' consumers are willing to receive in all.
MaxFrames == 2
\* Number of error handlers each Stream call registers (errHandlers...).
NumHandlers == 2

Streams == 1..NumStreams

\* nil value of c.healthyClientCh; channels are numbered 1, 2, ... in the
\* order make(chan struct{}) creates them.
NilCh == 0

\* No unary call has been made.
NoCall == [op |-> "none"]

VARIABLES
    mu,                      \* c.mu is locked
    healthyClientCh,         \* c.healthyClientCh
    made,                    \* number of generation signals created so far
    closedChans,             \* generation signals on which close() has run
    activeBackgroundWorkers, \* c.activeBackgroundWorkers: [v: counter, w: waiters]
    sema,                    \* the WaitGroup's semaphore
    crashed,                 \* an unrecovered panic has terminated the program
    streamPc,                \* position of each Stream call
    healthyLocal,            \* the local healthyClientCh each Stream call captured
    workerPc,                \* position of each worker goroutine
    exitVia,                 \* the return statement a worker left its loop by
    streamCtxDone,           \* streamCtx of each stream is cancelled
    frameChClosed,           \* frameCh of each stream is closed
    reads,                   \* results of each worker's Read calls, in order
    received,                \* pairs each stream's consumer received, in order
    streamClosed,            \* the worker has called stream.Close(ctxWithMIME)
    handlerCalls,            \* handler invocations of each worker, in order:
                             \* <<h, n>> is handler h called with the error of Read n
    closePc,                 \* position of the latest Close call
    nCloses,                 \* number of Close calls that have acquired c.mu
    closedByCall,            \* the signal the latest Close call closed (NilCh: none)
    returnedAtLock,          \* Stream calls that had returned when it locked
    call                     \* the unary call made (Read, Images, Properties,
                             \* Projector): its name, inputs and result

vars == <<mu, healthyClientCh, made, closedChans, activeBackgroundWorkers, sema,
          crashed, streamPc, healthyLocal, workerPc, exitVia, streamCtxDone,
          frameChClosed, reads, received, streamClosed, handlerCalls, closePc,
          nCloses, closedByCall, returnedAtLock, call>>

clientVars == <<mu, healthyClientCh, made, closedChans>>
wgVars == <<activeBackgroundWorkers, sema>>
streamVars == <<streamPc, healthyLocal>>
workerVars == <<workerPc, exitVia, streamCtxDone, frameChClosed, reads, received,
                streamClosed, handlerCalls>>
closeVars == <<closePc, nCloses, closedByCall, returnedAtLock>>

\* NewClientFromConn: the zero mutex, WaitGroup and healthyClientCh.
Init ==
    /\ mu = FALSE
    /\ healthyClientCh = NilCh
    /\ made = 0
    /\ closedChans = {}
    /\ activeBackgroundWorkers = [v |-> 0, w |-> 0]
    /\ sema = 0
    /\ crashed = FALSE
    /\ streamPc = [i \in Streams |-> "idle"]
    /\ healthyLocal = [i \in Streams |-> NilCh]
    /\ workerPc = [i \in Streams |-> "none"]
    /\ exitVia = [i \in Streams |-> "none"]
    /\ streamCtxDone = [i \in Streams |-> FALSE]
    /\ frameChClosed = [i \in Streams |-> FALSE]
    /\ reads = [i \in Streams |-> <<>>]
    /\ received = [i \in Streams |-> <<>>]
    /\ streamClosed = [i \in Streams |-> FALSE]
    /\ handlerCalls = [i \in Streams |-> <<>>]
    /\ closePc = "idle"
    /\ nCloses = 0
    /\ closedByCall = NilCh
    /\ returnedAtLock = {}
    /\ call = NoCall

----------------------------------------------------------------------------
(* client.Stream, on the caller's goroutine *)

\* Faulty variant of StreamCapture: every Stream call makes a signal of its
\* own, replacing the one the client holds.
StreamCaptureAlwaysMakes(i) ==
    /\ ~crashed
    /\ streamPc[i] = "idle"
    /\ \A j \in Streams : j < i => streamPc[j] # "idle"
    /\ ~mu
    /\ made' = made + 1
    /\ healthyClientCh' = made + 1
    /\ healthyLocal' = [healthyLocal EXCEPT ![i] = healthyClientCh']
    /\ streamPc' = [streamPc EXCEPT ![i] = "unlocked"]
    /\ UNCHANGED <<mu, closedChans, wgVars, crashed, workerVars, closeVars, call>>

\* c.mu.Lock(); if c.healthyClientCh == nil { make };
\* healthyClientCh := c.healthyClientCh; c.mu.Unlock()
\* Stream calls are numbered in the order they acquire the mutex.
StreamCapture(i) ==
    /\ ~crashed
    /\ streamPc[i] = "idle"
    /\ \A j \in Streams : j < i => streamPc[j] # "idle"
    /\ ~mu
    /\ IF healthyClientCh = NilCh
         THEN /\ made' = made + 1
              /\ healthyClientCh' = made + 1
         ELSE UNCHANGED <<made, healthyClientCh>>
    /\ healthyLocal' = [healthyLocal EXCEPT ![i] = healthyClientCh']
    /\ streamPc' = [streamPc EXCEPT ![i] = "unlocked"]
    /\ UNCHANGED <<mu, closedChans, wgVars, crashed, workerVars, closeVars, call>>

\* NewMediaStreamForChannel (local to the call);
\* c.activeBackgroundWorkers.Add(1); PanicCapturingGo(worker); return stream.
\* WaitGroup.Add panics ("Add called concurrently with Wait") when it raises
\* the counter from zero while a waiter is registered.
StreamAdd(i) ==
    /\ ~crashed
    /\ streamPc[i] = "unlocked"
    /\ activeBackgroundWorkers' =
           [activeBackgroundWorkers EXCEPT !.v = activeBackgroundWorkers.v + 1]
    /\ IF activeBackgroundWorkers.w # 0 /\ activeBackgroundWorkers.v = 0
         THEN /\ crashed' = TRUE
              /\ streamPc' = [streamPc EXCEPT ![i] = "panicked"]
              /\ workerPc' = workerPc
         ELSE /\ crashed' = crashed
              /\ streamPc' = [streamPc EXCEPT ![i] = "returned"]
              /\ workerPc' = [workerPc EXCEPT ![i] = "loop"]
    /\ UNCHANGED <<clientVars, sema, healthyLocal, exitVia, streamCtxDone,
                   frameChClosed, reads, received, streamClosed, handlerCalls,
                   closeVars, call>>

----------------------------------------------------------------------------
(* The worker goroutine of one stream *)

\* Number of pairs the consumers of the streams in S have received.
TotalReceived(S) ==
    LET RECURSIVE Sum(_)
        Sum(T) == IF T = {} THEN 0
                  ELSE LET i == CHOOSE j \in T : TRUE
                       IN Len(received[i]) + Sum(T \ {i})
    IN Sum(S)

\* Faulty variant of InvokeHandlers: the loop over the handlers ends after the
\* first one.
InvokeHandlersStopsAfterFirst(n) == <<<<1, n>>>>

\* for _, handler := range errHandlers { handler(streamCtx, err) }, with err
\* the error of the worker's n-th Read: the invocations it makes, in order.
InvokeHandlers(n) == [h \in 1..NumHandlers |-> <<h, n>>]

\* Faulty variant of WorkerReturn: frameCh is closed only next to the call of
\* stream.Close, on the exit through the closed generation signal.
WorkerReturnClosesOnClosureOnly(i, via) ==
    /\ workerPc' = [workerPc EXCEPT ![i] = "Done"]
    /\ exitVia' = [exitVia EXCEPT ![i] = via]
    /\ frameChClosed' = [frameChClosed EXCEPT ![i] = (via = "healthy")]

\* A return statement of the loop, and the first deferred call,
\* close(frameCh); the deferred Done follows.
WorkerReturn(i, via) ==
    /\ workerPc' = [workerPc EXCEPT ![i] = "Done"]
    /\ exitVia' = [exitVia EXCEPT ![i] = via]
    /\ frameChClosed' = [frameChClosed EXCEPT ![i] = TRUE]

\* Faulty variant of WorkerRead: a Read that fails ends the loop.
WorkerReadStopsOnError(i) ==
    /\ ~crashed
    /\ workerPc[i] = "loop"
    /\ IF streamCtxDone[i]
         THEN /\ WorkerReturn(i, "ctx")
              /\ UNCHANGED <<reads, handlerCalls>>
         ELSE \E err \in BOOLEAN :
                /\ reads' = [reads EXCEPT ![i] = Append(@, <<Len(@) + 1, err>>)]
                /\ handlerCalls' = [handlerCalls EXCEPT ![i] =
                       IF err THEN @ \o InvokeHandlers(Len(reads[i]) + 1) ELSE @]
                /\ IF err
                     THEN WorkerReturn(i, "ctx")
                     ELSE /\ workerPc' = [workerPc EXCEPT ![i] = "select"]
                          /\ UNCHANGED <<exitVia, frameChClosed>>
    /\ UNCHANGED <<clientVars, wgVars, crashed, streamVars, streamCtxDone,
                   received, streamClosed, closeVars, call>>

\* if streamCtx.Err() != nil { return }
\* frame, release, err := c.Read(streamCtx)
\* if err != nil { for _, handler := range errHandlers { handler(streamCtx, err) } }
\* The result of the n-th Read is <<n, err>>.
WorkerRead(i) ==
    /\ ~crashed
    /\ workerPc[i] = "loop"
    /\ IF streamCtxDone[i]
         THEN /\ WorkerReturn(i, "ctx")
              /\ UNCHANGED <<reads, handlerCalls>>
         ELSE /\ \E err \in BOOLEAN :
                    /\ reads' = [reads EXCEPT ![i] = Append(@, <<Len(@) + 1, err>>)]
                    /\ handlerCalls' = [handlerCalls EXCEPT ![i] =
                           IF err THEN @ \o InvokeHandlers(Len(reads[i]) + 1) ELSE @]
              /\ workerPc' = [workerPc EXCEPT ![i] = "select"]
              /\ UNCHANGED <<exitVia, frameChClosed>>
    /\ UNCHANGED <<clientVars, wgVars, crashed, streamVars, streamCtxDone,
                   received, streamClosed, closeVars, call>>

\* Faulty variant of WorkerSelectCtxDone: the workers share one scope, so the
\* cancellation of any stream ends this worker.
WorkerSelectAnyCtxDone(i) ==
    /\ ~crashed
    /\ workerPc[i] = "select"
    /\ \E j \in Streams : streamCtxDone[j]
    /\ WorkerReturn(i, "ctx")
    /\ UNCHANGED <<clientVars, wgVars, crashed, streamVars, streamCtxDone,
                   reads, received, streamClosed, handlerCalls, closeVars, call>>

\* select case <-streamCtx.Done(): return
WorkerSelectCtxDone(i) ==
    /\ ~crashed
    /\ workerPc[i] = "select"
    /\ streamCtxDone[i]
    /\ WorkerReturn(i, "ctx")
    /\ UNCHANGED <<clientVars, wgVars, crashed, streamVars, streamCtxDone,
                   reads, received, streamClosed, handlerCalls, closeVars, call>>

\* Faulty variant of WorkerSelectHealthy: the worker listens on the field
\* c.healthyClientCh instead of the channel its Stream call captured (a
\* receive on a nil channel never completes).
WorkerSelectHealthyField(i) ==
    /\ ~crashed
    /\ workerPc[i] = "select"
    /\ healthyClientCh \in closedChans
    /\ streamClosed' = [streamClosed EXCEPT ![i] = TRUE]
    /\ streamCtxDone' = [streamCtxDone EXCEPT ![i] = TRUE]
    /\ WorkerReturn(i, "healthy")
    /\ UNCHANGED <<clientVars, wgVars, crashed, streamVars, reads, received,
                   handlerCalls, closeVars, call>>

\* select case <-healthyClientCh: stream.Close(ctxWithMIME); return
\* (stream.Close cancels streamCtx)
WorkerSelectHealthy(i) ==
    /\ ~crashed
    /\ workerPc[i] = "select"
    /\ healthyLocal[i] \in closedChans
    /\ streamClosed' = [streamClosed EXCEPT ![i] = TRUE]
    /\ streamCtxDone' = [streamCtxDone EXCEPT ![i] = TRUE]
    /\ WorkerReturn(i, "healthy")
    /\ UNCHANGED <<clientVars, wgVars, crashed, streamVars, reads, received,
                   handlerCalls, closeVars, call>>

\* Faulty variant of WorkerSelectSend: the select has a default case, so a
\* pair no consumer is ready for is dropped.
WorkerSelectSendOrDrop(i) ==
    /\ ~crashed
    /\ workerPc[i] = "select"
    /\ ~frameChClosed[i]
    /\ \/ /\ TotalReceived(Streams) < MaxFrames
          /\ received' = [received EXCEPT ![i] = Append(@, reads[i][Len(reads[i])])]
       \/ received' = received
    /\ workerPc' = [workerPc EXCEPT ![i] = "loop"]
    /\ UNCHANGED <<clientVars, wgVars, crashed, streamVars, exitVia,
                   streamCtxDone, frameChClosed, reads, streamClosed,
                   handlerCalls, closeVars, call>>

\* Faulty variant of WorkerSelectSend: the worker closes frameCh after the
\* send instead of when it returns.
WorkerSelectSendThenClose(i) ==
    /\ ~crashed
    /\ workerPc[i] = "select"
    /\ ~frameChClosed[i]
    /\ TotalReceived(Streams) < MaxFrames
    /\ received' = [received EXCEPT ![i] = Append(@, reads[i][Len(reads[i])])]
    /\ frameChClosed' = [frameChClosed EXCEPT ![i] = TRUE]
    /\ workerPc' = [workerPc EXCEPT ![i] = "loop"]
    /\ UNCHANGED <<clientVars, wgVars, crashed, streamVars, exitVia,
                   streamCtxDone, reads, streamClosed, handlerCalls,
                   closeVars, call>>

\* select case frameCh <- MediaReleasePairWithError{frame, release, err}:
\* frameCh is unbuffered, so the send completes only with a consumer that is
\* receiving; the consumers take at most MaxFrames frames in all.
WorkerSelectSend(i) ==
    /\ ~crashed
    /\ workerPc[i] = "select"
    /\ ~frameChClosed[i]
    /\ TotalReceived(Streams) < MaxFrames
    /\ received' = [received EXCEPT ![i] = Append(@, reads[i][Len(reads[i])])]
    /\ workerPc' = [workerPc EXCEPT ![i] = "loop"]
    /\ UNCHANGED <<clientVars, wgVars, crashed, streamVars, exitVia,
                   streamCtxDone, frameChClosed, reads, streamClosed,
                   handlerCalls, closeVars, call>>

\* Faulty variant of WorkerDone: Done is called on the exit through the
\* closed generation signal only, not deferred.
WorkerDoneOnClosureOnly(i) ==
    /\ ~crashed
    /\ workerPc[i] = "Done"
    /\ activeBackgroundWorkers' =
           [activeBackgroundWorkers EXCEPT !.v =
               IF exitVia[i] = "healthy" THEN activeBackgroundWorkers.v - 1
               ELSE activeBackgroundWorkers.v]
    /\ workerPc' = [workerPc EXCEPT ![i] =
           IF activeBackgroundWorkers'.v > 0 \/ activeBackgroundWorkers.w = 0
             THEN "exited" ELSE "DoneRelease"]
    /\ UNCHANGED <<clientVars, sema, crashed, streamVars, exitVia,
                   streamCtxDone, frameChClosed, reads, received, streamClosed,
                   handlerCalls, closeVars, call>>

\* defer c.activeBackgroundWorkers.Done(): the atomic decrement.  When the
\* counter reaches zero with a waiter registered, this goroutine goes on to
\* release the waiter.
WorkerDone(i) ==
    /\ ~crashed
    /\ workerPc[i] = "Done"
    /\ activeBackgroundWorkers' =
           [activeBackgroundWorkers EXCEPT !.v = activeBackgroundWorkers.v - 1]
    /\ workerPc' = [workerPc EXCEPT ![i] =
           IF activeBackgroundWorkers'.v > 0 \/ activeBackgroundWorkers.w = 0
             THEN "exited" ELSE "DoneRelease"]
    /\ UNCHANGED <<clientVars, sema, crashed, streamVars, exitVia,
                   streamCtxDone, frameChClosed, reads, received, streamClosed,
                   handlerCalls, closeVars, call>>

\* Done, continued: the state is re-read; if it changed, Done panics (the
\* panic is captured by PanicCapturingGo and the goroutine ends); otherwise
\* the state is reset to zero and the semaphore released once per waiter.
WorkerDoneRelease(i) ==
    /\ ~crashed
    /\ workerPc[i] = "DoneRelease"
    /\ IF activeBackgroundWorkers.v # 0
         THEN UNCHANGED wgVars
         ELSE /\ activeBackgroundWorkers' = [v |-> 0, w |-> 0]
              /\ sema' = sema + activeBackgroundWorkers.w
    /\ workerPc' = [workerPc EXCEPT ![i] = "exited"]
    /\ UNCHANGED <<clientVars, crashed, streamVars, exitVia, streamCtxDone,
                   frameChClosed, reads, received, streamClosed, handlerCalls,
                   closeVars, call>>

\* The holder of the stream handle calls stream.Close, which cancels
\* streamCtx.  The handle exists once Stream has returned.
CancelStream(i) ==
    /\ ~crashed
    /\ streamPc[i] = "returned"
    /\ ~streamCtxDone[i]
    /\ streamCtxDone' = [streamCtxDone EXCEPT ![i] = TRUE]
    /\ UNCHANGED <<clientVars, wgVars, crashed, streamVars, workerPc, exitVia,
                   frameChClosed, reads, received, streamClosed, handlerCalls,
                   closeVars, call>>

----------------------------------------------------------------------------
(* client.Close.  Close holds c.mu from its first statement until it       *)
(* returns, so Close calls run one at a time, in the order they acquire    *)
(* the mutex; closePc is the position of the call that acquired it last.   *)

\* Faulty variant of CloseReturn: the closed channel is left in the field.
CloseReturnKeepsCh ==
    /\ healthyClientCh' = healthyClientCh
    /\ mu' = FALSE
    /\ closePc' = "returned"
    /\ crashed' = crashed

\* c.healthyClientCh = nil; return nil (the deferred Unlock runs)
CloseReturn ==
    /\ healthyClientCh' = NilCh
    /\ mu' = FALSE
    /\ closePc' = "returned"
    /\ crashed' = crashed

\* A panic inside Close: the deferred Unlock runs, the panic propagates.
ClosePanic ==
    /\ healthyClientCh' = healthyClientCh
    /\ mu' = FALSE
    /\ closePc' = "panicked"
    /\ crashed' = TRUE

\* c.mu.Lock(); defer c.mu.Unlock()
\* if c.healthyClientCh != nil { close(c.healthyClientCh) }
\* close of a closed channel panics.
CloseSignal ==
    /\ ~crashed
    /\ closePc \in {"idle", "returned"}
    /\ nCloses < NumCloses
    /\ ~mu
    /\ nCloses' = nCloses + 1
    /\ returnedAtLock' = {i \in Streams : streamPc[i] = "returned"}
    /\ IF healthyClientCh = NilCh
         THEN /\ mu' = TRUE
              /\ closePc' = "Wait"
              /\ closedByCall' = NilCh
              /\ UNCHANGED <<healthyClientCh, closedChans, crashed>>
         ELSE IF healthyClientCh \in closedChans
           THEN /\ ClosePanic
                /\ closedByCall' = NilCh
                /\ UNCHANGED closedChans
           ELSE /\ mu' = TRUE
                /\ closedChans' = closedChans \cup {healthyClientCh}
                /\ closedByCall' = healthyClientCh
                /\ closePc' = "Wait"
                /\ UNCHANGED <<healthyClientCh, crashed>>
    /\ UNCHANGED <<made, wgVars, streamVars, workerVars, call>>

\* Faulty variant of CloseWait: Close does not wait for the workers.
CloseWaitSkipped ==
    /\ ~crashed
    /\ closePc = "Wait"
    /\ CloseReturn
    /\ UNCHANGED <<made, closedChans, wgVars, streamVars, workerVars,
                   nCloses, closedByCall, returnedAtLock, call>>

\* c.activeBackgroundWorkers.Wait(): with the counter at zero it returns at
\* once; otherwise it registers as a waiter and blocks on the semaphore.
CloseWait ==
    /\ ~crashed
    /\ closePc = "Wait"
    /\ IF activeBackgroundWorkers.v = 0
         THEN /\ CloseReturn
              /\ UNCHANGED activeBackgroundWorkers
         ELSE /\ closePc' = "Semacquire"
              /\ activeBackgroundWorkers' =
                   [activeBackgroundWorkers EXCEPT !.w = activeBackgroundWorkers.w + 1]
              /\ UNCHANGED <<mu, healthyClientCh, crashed>>
    /\ UNCHANGED <<made, closedChans, sema, streamVars, workerVars,
                   nCloses, closedByCall, returnedAtLock, call>>

\* Wait, continued: the semaphore is acquired and the state re-read; a
\* non-zero state panics ("WaitGroup is reused before previous Wait has
\* returned"); otherwise Wait returns.
CloseWake ==
    /\ ~crashed
    /\ closePc = "Semacquire"
    /\ sema > 0
    /\ sema' = sema - 1
    /\ IF activeBackgroundWorkers # [v |-> 0, w |-> 0]
         THEN ClosePanic
         ELSE CloseReturn
    /\ UNCHANGED <<made, closedChans, activeBackgroundWorkers, streamVars,
                   workerVars, nCloses, closedByCall, returnedAtLock, call>>

----------------------------------------------------------------------------

Next ==
    \/ \E i \in Streams : StreamCapture(i)
    \/ \E i \in Streams : StreamAdd(i)
    \/ \E i \in Streams : WorkerRead(i)
    \/ \E i \in Streams : WorkerSelectCtxDone(i)
    \/ \E i \in Streams : WorkerSelectHealthy(i)
    \/ \E i \in Streams : WorkerSelectSend(i)
    \/ \E i \in Streams : WorkerDone(i)
    \/ \E i \in Streams : WorkerDoneRelease(i)
    \/ \E i \in Streams : CancelStream(i)
    \/ CloseSignal
    \/ CloseWait
    \/ CloseWake

Spec == Init /\ [][Next]_vars

\* Every goroutine that can take a step eventually takes one; a select with
\* several ready cases picks among them at random, so a case that is ready
\* again and again is eventually picked.  Nothing obliges callers to call
\* Stream, Close or stream.Close, nor consumers to receive.
Fairness ==
    /\ \A i \in Streams :
        /\ WF_vars(StreamAdd(i))
        /\ WF_vars(WorkerRead(i))
        /\ SF_vars(WorkerSelectCtxDone(i))
        /\ SF_vars(WorkerSelectHealthy(i))
        /\ WF_vars(WorkerDone(i))
        /\ WF_vars(WorkerDoneRelease(i))
    /\ WF_vars(CloseWait)
    /\ WF_vars(CloseWake)

FairSpec == Spec /\ Fairness

TypeOK ==
    /\ mu \in BOOLEAN
    /\ healthyClientCh \in 0..made
    /\ made \in 0..NumStreams
    /\ closedChans \subseteq 1..made
    /\ activeBackgroundWorkers.v \in 0..NumStreams
    /\ activeBackgroundWorkers.w \in 0..1
    /\ sema \in 0..1
    /\ crashed \in BOOLEAN
    /\ nCloses \in 0..NumCloses

----------------------------------------------------------------------------
(* The unary calls: client.Images, client.Read, client.Properties and      *)
(* client.Projector.  Each is one request to the server followed by a      *)
(* conversion of the response; none of them touches the client's mutex,    *)
(* WaitGroup or generation signal, so they are checked on their own, over  *)
(* every response of a bounded set, with `call` holding the call made.     *)

lifecycleVars == <<clientVars, wgVars, crashed, streamVars, workerVars, closeVars>>

\* No error (Go's nil error).
NoErr == "nil"
\* A nil image.Image, pointer or interface value.
Nil == [isNil |-> TRUE]

\* Largest number of images in a GetImages response.
MaxImages == 2

\* The values of pb.Format the switch of Images names, and one it does not
\* (proto3 enums are open: a server may send a value this client's schema
\* does not define).
Formats == {"FORMAT_UNSPECIFIED", "FORMAT_RAW_RGBA", "FORMAT_RAW_DEPTH",
            "FORMAT_JPEG", "FORMAT_PNG"}
WireFormats == Formats \cup {"FORMAT_6"}

SourceNames == {"color", "depth"}

\* An image of a GetImagesResponse: its format tag, its source name, and
\* whether image.Decode recognises its bytes.
WireImages == [format : WireFormats, sourceName : SourceNames, decodable : BOOLEAN]

RECURSIVE SeqsUpTo(_, _)
\* The sequences over S of length at most n.
SeqsUpTo(S, n) ==
    IF n = 0 THEN {<<>>}
    ELSE LET shorter == SeqsUpTo(S, n - 1)
         IN shorter \cup {Append(q, x) : q \in shorter, x \in S}

\* The responses of c.client.GetImages: an error, or a list of images.
GetImagesResponses ==
    {[err |-> "rpc", images |-> <<>>]} \cup
    {[err |-> NoErr, images |-> q] : q \in SeqsUpTo(WireImages, MaxImages)}

\* rimage.NewLazyEncodedImage(img.Image, mimeType)
NewLazyEncodedImage(mimeType) == [isNil |-> FALSE, lazy |-> TRUE, mimeType |-> mimeType]

\* The switch on img.Format: the value of rdkImage and of err after it.
\* No case matches a format outside Formats, and the switch has no default:
\* rdkImage keeps its zero value, nil.
ImagesSwitch(img) ==
    CASE img.format = "FORMAT_RAW_RGBA" ->
           [rdkImage |-> NewLazyEncodedImage("image/vnd.viam.rgba"), err |-> NoErr]
      [] img.format = "FORMAT_RAW_DEPTH" ->
           [rdkImage |-> NewLazyEncodedImage("image/vnd.viam.dep"), err |-> NoErr]
      [] img.format = "FORMAT_JPEG" ->
           [rdkImage |-> NewLazyEncodedImage("image/jpeg"), err |-> NoErr]
      [] img.format = "FORMAT_PNG" ->
           [rdkImage |-> NewLazyEncodedImage("image/png"), err |-> NoErr]
      [] img.format = "FORMAT_UNSPECIFIED" ->
           IF img.decodable
             THEN [rdkImage |-> [isNil |-> FALSE, lazy |-> FALSE, mimeType |-> "sniffed"],
                   err |-> NoErr]
             ELSE [rdkImage |-> Nil, err |-> "decode"]
      [] OTHER -> [rdkImage |-> Nil, err |-> NoErr]

RECURSIVE ImagesLoop(_, _, _)
\* for _, img := range resp.Images { ... }, from the k-th image on, with the
\* NamedImages appended so far.
ImagesLoop(respImages, k, images) ==
    IF k > Len(respImages)
      THEN [images |-> images, err |-> NoErr]
      ELSE LET img == respImages[k]
               sw == ImagesSwitch(img)
           IN IF sw.err # NoErr
                THEN [images |-> <<>>, err |-> sw.err]
                ELSE ImagesLoop(respImages, k + 1,
                         Append(images, [Image |-> sw.rdkImage,
                                         SourceName |-> img.sourceName]))

\* client.Images on the response resp of GetImages.
Images(resp) ==
    IF resp.err # NoErr
      THEN [images |-> <<>>, err |-> "could not gets images"]
      ELSE ImagesLoop(resp.images, 1, <<>>)

CallImages ==
    /\ call = NoCall
    /\ \E resp \in GetImagesResponses :
         call' = [op |-> "Images", resp |-> resp, out |-> Images(resp)]
    /\ UNCHANGED lifecycleVars

\* A MIME type string is a base type followed by `lazy` copies of the suffix
\* "+lazy".  The hint of the caller's context (gostream.MIMETypeHint(ctx, ""))
\* is "" when the caller gave none.
MimeBases == {"", "image/jpeg", "image/png"}
MimeHints == [base : MimeBases, lazy : {0, 1}]
\* The types a server reports for the bytes it returns.
ReturnedMimes == [base : MimeBases \ {""}, lazy : {0}]

\* utils.WithLazyMIMEType: the type with "+lazy" appended.
WithLazyMIMEType(mimeType) == [mimeType EXCEPT !.lazy = @ + 1]

\* utils.CheckLazyMIMEType: a type that ends in one "+lazy" is split into the
\* type without it and TRUE; any other type is returned as it is, with FALSE.
CheckLazyMIMEType(mimeType) ==
    IF mimeType.lazy = 1
      THEN <<[mimeType EXCEPT !.lazy = 0], TRUE>>
      ELSE <<mimeType, FALSE>>

\* rimage.DecodeImage(ctx, resp.Image, mimeType): a lazy type yields a lazily
\* encoded image without looking at the bytes; any other type is decoded at
\* once, which fails on bytes that do not parse and on a type it does not know.
DecodeImage(decodable, mimeType) ==
    LET chk == CheckLazyMIMEType(mimeType)
    IN IF chk[2]
         THEN [img |-> NewLazyEncodedImage(chk[1]), err |-> NoErr]
         ELSE IF decodable /\ mimeType.lazy = 0
                THEN [img |-> [isNil |-> FALSE, lazy |-> FALSE, mimeType |-> mimeType],
                      err |-> NoErr]
                ELSE [img |-> Nil, err |-> "decode"]

\* The responses of c.client.GetImage.
GetImageResponses == [err : {NoErr, "rpc"}, mimeType : ReturnedMimes, decodable : BOOLEAN]

\* client.Read with the caller's hint, the result extErr of getExtra and the
\* response resp of GetImage.  Besides the image and the error it returns,
\* the result records the type sent to the server, whether the mismatch was
\* logged, and the type handed to DecodeImage (Nil: DecodeImage not called).
Read(hint, extErr, resp) ==
    LET mimeType == hint
        expectedType == CheckLazyMIMEType(mimeType)[1]
        mismatch == resp.mimeType # expectedType
        respMimeType == WithLazyMIMEType(IF mismatch THEN resp.mimeType ELSE mimeType)
        dec == DecodeImage(resp.decodable, respMimeType)
    IN IF extErr # NoErr
         THEN [img |-> Nil, err |-> extErr, sent |-> Nil, logged |-> FALSE,
               decoderType |-> Nil]
       ELSE IF resp.err # NoErr
         THEN [img |-> Nil, err |-> resp.err, sent |-> expectedType,
               logged |-> FALSE, decoderType |-> Nil]
       ELSE [img |-> dec.img, err |-> dec.err, sent |-> expectedType,
             logged |-> mismatch, decoderType |-> respMimeType]

CallRead ==
    /\ call = NoCall
    /\ \E hint \in MimeHints, extErr \in {NoErr, "extra"}, resp \in GetImageResponses :
         call' = [op |-> "Read", hint |-> hint, extErr |-> extErr, resp |-> resp,
                  out |-> Read(hint, extErr, resp)]
    /\ UNCHANGED lifecycleVars

\* resp.IntrinsicParameters of a GetPropertiesResponse, when present.
WireIntrinsics ==
    [WidthPx : {0, 640}, HeightPx : {480}, FocalXPx : {0, 500}, FocalYPx : {500},
     CenterXPx : {320}, CenterYPx : {240}]

\* resp.DistortionParameters, when present: a model name and parameters.
WireDistortions ==
    [Model : {"", "brown_conrady", "unknown"},
     Parameters : {<<>>, <<0, 0, 0, 0, 0>>, <<0, 0, 0, 0, 0, 0>>}]

\* The responses of c.client.GetProperties.
GetPropertiesResponses ==
    [err : {NoErr, "rpc"},
     IntrinsicParameters : {Nil} \cup WireIntrinsics,
     MimeTypes : {<<>>, <<"image/jpeg">>},
     SupportsPcd : BOOLEAN,
     DistortionParameters : {Nil} \cup WireDistortions]

\* Properties{}
EmptyProperties ==
    [IntrinsicParams |-> Nil, MimeTypes |-> <<>>, SupportsPCD |-> FALSE,
     DistortionParams |-> Nil]

\* transform.NewDistorter(model, parameters): the registry of distortion
\* models maps a known name to its constructor, which rejects a malformed
\* parameter list; an unknown name is an error.
NewDistorter(model, parameters) ==
    IF model = "brown_conrady" /\ Len(parameters) <= 5
      THEN [distorter |-> [isNil |-> FALSE, model |-> model, parameters |-> parameters],
            err |-> NoErr]
      ELSE [distorter |-> Nil, err |-> "distortion"]

\* (*PinholeCameraIntrinsics).CheckValid: nil intrinsics, a zero width or
\* height, and a focal length that is not positive are invalid.
CheckValid(intrinsics) ==
    IF intrinsics = Nil THEN "intrinsics"
    ELSE IF intrinsics.Width = 0 \/ intrinsics.Height = 0 THEN "intrinsics"
    ELSE IF intrinsics.Fx <= 0 \/ intrinsics.Fy <= 0 THEN "intrinsics"
    ELSE NoErr

\* The first half of client.Properties: result after the intrinsics, the
\* MIME types and the point cloud flag are copied from the response.
PropertiesCopied(resp) ==
    [IntrinsicParams |->
         IF resp.IntrinsicParameters # Nil
           THEN [isNil |-> FALSE,
                 Width |-> resp.IntrinsicParameters.WidthPx,
                 Height |-> resp.IntrinsicParameters.HeightPx,
                 Fx |-> resp.IntrinsicParameters.FocalXPx,
                 Fy |-> resp.IntrinsicParameters.FocalYPx,
                 Ppx |-> resp.IntrinsicParameters.CenterXPx,
                 Ppy |-> resp.IntrinsicParameters.CenterYPx]
           ELSE Nil,
     MimeTypes |-> resp.MimeTypes,
     SupportsPCD |-> resp.SupportsPcd,
     DistortionParams |-> Nil]

\* Faulty variant of Properties: when the distortion model fails to resolve,
\* the result is returned with the unresolved descriptor and no error.
PropertiesKeepsUnresolved(resp) ==
    LET result == PropertiesCopied(resp)
        d == resp.DistortionParameters
        made_ == NewDistorter(d.Model, d.Parameters)
    IN IF resp.err # NoErr THEN [props |-> EmptyProperties, err |-> resp.err]
       ELSE IF d = Nil THEN [props |-> result, err |-> NoErr]
       ELSE IF d.Model = "" THEN [props |-> result, err |-> NoErr]
       ELSE IF made_.err # NoErr
         THEN [props |-> [result EXCEPT !.DistortionParams =
                            [isNil |-> FALSE, model |-> d.Model,
                             parameters |-> d.Parameters]],
               err |-> NoErr]
       ELSE [props |-> [result EXCEPT !.DistortionParams = made_.distorter],
             err |-> NoErr]

\* client.Properties on the response resp of GetProperties.
Properties(resp) ==
    LET result == PropertiesCopied(resp)
        d == resp.DistortionParameters
        made_ == NewDistorter(d.Model, d.Parameters)
    IN IF resp.err # NoErr THEN [props |-> EmptyProperties, err |-> resp.err]
       ELSE IF d = Nil THEN [props |-> result, err |-> NoErr]
       ELSE IF d.Model = "" THEN [props |-> result, err |-> NoErr]
       ELSE IF made_.err # NoErr THEN [props |-> EmptyProperties, err |-> made_.err]
       ELSE [props |-> [result EXCEPT !.DistortionParams = made_.distorter],
             err |-> NoErr]

CallProperties ==
    /\ call = NoCall
    /\ \E resp \in GetPropertiesResponses :
         call' = [op |-> "Properties", resp |-> resp, out |-> Properties(resp)]
    /\ UNCHANGED lifecycleVars

\* Faulty variant of Projector: the intrinsics are returned unchecked.
ProjectorUnchecked(resp) ==
    LET p == Properties(resp)
    IN IF p.err # NoErr THEN [proj |-> Nil, err |-> p.err]
       ELSE [proj |-> p.props.IntrinsicParams, err |-> NoErr]

\* client.Projector, with resp the response of the GetProperties request its
\* call of Properties makes.
Projector(resp) ==
    LET p == Properties(resp)
        intrinsics == p.props.IntrinsicParams
        err == CheckValid(intrinsics)
    IN IF p.err # NoErr THEN [proj |-> Nil, err |-> p.err]
       ELSE IF err # NoErr THEN [proj |-> Nil, err |-> err]
       ELSE [proj |-> intrinsics, err |-> NoErr]

CallProjector ==
    /\ call = NoCall
    /\ \E resp \in GetPropertiesResponses :
         call' = [op |-> "Projector", resp |-> resp, out |-> Projector(resp)]
    /\ UNCHANGED lifecycleVars

UnaryNext ==
    \/ CallImages
    \/ CallRead
    \/ CallProperties
    \/ CallProjector

UnarySpec == Init /\ [][UnaryNext]_vars

----------------------------------------------------------------------------
(* Properties *)

\* The worker of stream i has left its loop.
Exiting(i) == workerPc[i] \in {"Done", "DoneRelease", "exited"}

\* C1: generation isolation.  Whenever a worker performs a Read or publishes
\* a pair, no generation signal has been created after the one the worker is
\* bound to (signals are numbered in creation order, so the latest one is
\* number made).
GenerationIsolation ==
    [][\A i \in Streams :
          (Len(reads'[i]) > Len(reads[i]) \/ Len(received'[i]) > Len(received[i]))
              => healthyLocal[i] = made]_vars

\* C2: barrier for completed Stream calls.  When Close has returned, the
\* worker of every Stream call that had returned before Close acquired the
\* mutex (hence before any later point of the call) has exited, and from then
\* on the consumer of such a stream receives nothing.
BarrierForReturnedStreams ==
    /\ [](closePc = "returned" =>
             \A i \in returnedAtLock : workerPc[i] = "exited")
    /\ [][closePc = "returned" =>
             \A i \in returnedAtLock : received'[i] = received[i]]_vars

\* C2 witness: Close has returned after waiting for a worker that had
\* published a frame and then left through the closure branch.
BarrierWitness ==
    /\ closePc = "returned"
    /\ \E i \in returnedAtLock :
          /\ healthyLocal[i] = closedByCall
          /\ exitVia[i] = "healthy"
          /\ Len(received[i]) > 0

\* C3: atomic joining of a generation.  When Close has returned, no Stream
\* call bound to the signal that Close closed has a worker that is alive or
\* yet to be spawned.
AtomicJoin ==
    (closePc = "returned" /\ closedByCall # NilCh) =>
        \A i \in Streams :
            healthyLocal[i] = closedByCall => workerPc[i] = "exited"

\* C4: Close never panics, neither by closing a generation signal twice nor
\* otherwise; it returns nil.
CloseNeverPanics == closePc # "panicked"

\* C5: the generation signal a Stream call captures is an open channel: it
\* is not closed at the moment of capture, and it was created after every
\* signal closed so far.
CaptureNotClosed ==
    [][\A i \in Streams :
          healthyLocal'[i] # healthyLocal[i] =>
              /\ healthyLocal'[i] # NilCh
              /\ healthyLocal'[i] \notin closedChans'
              /\ \A c \in closedChans' : healthyLocal'[i] > c]_vars

\* C5 witness: a Stream call made after a Close had returned holds a signal
\* that is not the closed one.
CaptureWitness ==
    /\ closedChans # {}
    /\ \E i \in Streams :
          /\ healthyLocal[i] # NilCh
          /\ healthyLocal[i] \notin closedChans

\* C6: every Close call that has acquired the mutex eventually returns.
CloseEventuallyReturns ==
    (closePc \in {"Wait", "Semacquire"}) ~> (closePc = "returned")

\* The worker of stream i no longer runs: it has exited, or the program has
\* been terminated.
Terminated(i) == workerPc[i] = "exited" \/ crashed

\* C7: once a generation signal is closed, every worker bound to it,
\* spawned or about to be spawned, counted by the Close or not, eventually
\* terminates.
ClosedSignalStopsWorkers ==
    \A i \in Streams :
        (healthyLocal[i] \in closedChans /\ streamPc[i] \in {"unlocked", "returned"})
            ~> Terminated(i)

\* C7 witness: a worker whose Stream call had not returned when the Close
\* that closed its signal took the mutex has left through the closure branch,
\* its scope never cancelled by the holder of the stream.
ClosedSignalWitness ==
    /\ ~crashed
    /\ \E i \in Streams :
          /\ healthyLocal[i] = closedByCall
          /\ i \notin returnedAtLock
          /\ workerPc[i] = "exited"
          /\ exitVia[i] = "healthy"

\* C8: cancelling the scope of one stream changes neither the client's
\* generation signal nor any other stream, and a worker leaves through a
\* cancellation branch only when its own scope is cancelled.
CancellationIsolation ==
    /\ [][\A i \in Streams :
            (streamCtxDone'[i] /\ ~streamCtxDone[i] /\ workerPc'[i] = workerPc[i])
                => /\ healthyClientCh' = healthyClientCh
                   /\ closedChans' = closedChans
                   /\ \A j \in Streams \ {i} :
                        /\ workerPc'[j] = workerPc[j]
                        /\ streamCtxDone'[j] = streamCtxDone[j]]_vars
    /\ [](\A j \in Streams : exitVia[j] = "ctx" => streamCtxDone[j])

\* C8 witness: one worker has exited on its cancelled scope while another
\* worker of the same generation, its scope and signal intact, has read and
\* is about to publish.
CancellationWitness ==
    \E i, j \in Streams :
        /\ i # j
        /\ workerPc[i] = "exited"
        /\ exitVia[i] = "ctx"
        /\ healthyLocal[j] = healthyLocal[i]
        /\ healthyLocal[j] \notin closedChans
        /\ ~streamCtxDone[j]
        /\ workerPc[j] = "select"

\* The result of the latest Read of worker i is an error.
LastReadFailed(i) == Len(reads[i]) > 0 /\ reads[i][Len(reads[i])][2]

\* C9: a worker leaves its loop only on its cancelled scope or its closed
\* signal; a Read that fails takes the worker to the select, and from there,
\* with neither event, the only step is the publication of the failed pair,
\* after which the worker is back at the head of the loop.
FailedReadDoesNotTerminate ==
    /\ [](\A i \in Streams : Exiting(i) =>
             \/ exitVia[i] = "ctx" /\ streamCtxDone[i]
             \/ exitVia[i] = "healthy" /\ healthyLocal[i] \in closedChans)
    /\ [][\A i \in Streams :
            (Len(reads'[i]) > Len(reads[i]) /\ LastReadFailed(i)')
                => workerPc'[i] = "select"]_vars
    /\ [][\A i \in Streams :
            (/\ workerPc[i] = "select" /\ workerPc'[i] # "select"
             /\ LastReadFailed(i)
             /\ ~streamCtxDone[i] /\ healthyLocal[i] \notin closedChans)
                => /\ workerPc'[i] = "loop"
                   /\ received'[i] = Append(received[i], reads[i][Len(reads[i])])]_vars

\* C9 witness: a failed pair was published and the worker has read again.
FailedReadWitness ==
    \E i \in Streams :
        /\ Len(received[i]) >= 1
        /\ received[i][1][2]
        /\ Len(reads[i]) >= 2
        /\ ~streamCtxDone[i]

\* C10: what a consumer has received is the sequence of the worker's Read
\* results, in order, without the latest one at most.
PerStreamOrdering ==
    \A i \in Streams :
        /\ Len(received[i]) <= Len(reads[i])
        /\ Len(reads[i]) - Len(received[i]) <= 1
        /\ received[i] = SubSeq(reads[i], 1, Len(received[i]))

\* C10 witness: two pairs received, a third read and not delivered.
OrderingWitness ==
    \E i \in Streams :
        /\ Len(received[i]) = 2
        /\ Len(reads[i]) = 3

----------------------------------------------------------------------------
\* The generation signals that have been created and are not closed.
OpenSignals == (1..made) \ closedChans

\* C11: in every reachable state at most one generation signal is not
\* closed, and a step creates a signal only when the client holds none and
\* every signal created before is closed.
SingleLiveSignal ==
    /\ [](Cardinality(OpenSignals) <= 1)
    /\ [][made' # made => /\ healthyClientCh = NilCh
                          /\ OpenSignals = {}
                          /\ OpenSignals' = {made'}]_vars

\* A second signal exists, created after the first was closed.
SingleLiveSignalWitness ==
    /\ made = 2
    /\ closedChans = {1}
    /\ healthyClientCh = 2

----------------------------------------------------------------------------
\* C12: format dispatch is fail-closed.  When a bundled image of the
\* GetImages response carries a format tag outside {unspecified, raw-RGBA,
\* raw-depth, JPEG, PNG}, Images returns an error (and so no result list
\* with an entry for that image).
ImagesFailClosed ==
    (/\ call.op = "Images"
     /\ \E k \in 1..Len(call.resp.images) : call.resp.images[k].format \notin Formats)
        => call.out.err # NoErr

\* C13: mimetype negotiation in Read.  When the server returns a type that
\* differs from the base type the caller requested, Read does not fail for
\* that reason (it goes on to decode), and the type it hands to the decoder
\* is the returned type, carrying the lazy qualifier if and only if the
\* caller's requested type carried it.
ReadKeepsCallerQualifier ==
    (/\ call.op = "Read"
     /\ call.extErr = NoErr
     /\ call.resp.err = NoErr
     /\ call.resp.mimeType.base # call.hint.base)
        => /\ call.out.decoderType # Nil
           /\ call.out.decoderType.base = call.resp.mimeType.base
           /\ call.out.decoderType.lazy > 0 <=> call.hint.lazy > 0

\* The distortion descriptor of a GetProperties response names a model.
NamesDistortion(resp) ==
    /\ resp.DistortionParameters # Nil
    /\ resp.DistortionParameters.Model # ""

\* C14: distortion resolution in Properties.  With the descriptor absent or
\* its model name empty, Properties succeeds with no distortion model; with a
\* name, it returns either the instance the registry constructed from the
\* supplied parameters, or an error with an empty Properties value.  A
\* returned distortion model is never one whose name failed to resolve.
DistortionResolved ==
    (call.op = "Properties" /\ call.resp.err = NoErr) =>
        LET d == call.resp.DistortionParameters
            props == call.out.props
        IN /\ ~NamesDistortion(call.resp) =>
                 call.out.err = NoErr /\ props.DistortionParams = Nil
           /\ NamesDistortion(call.resp) =>
                 \/ /\ call.out.err = NoErr
                    /\ props.DistortionParams # Nil
                    /\ props.DistortionParams = NewDistorter(d.Model, d.Parameters).distorter
                 \/ /\ call.out.err # NoErr
                    /\ props = EmptyProperties
           /\ props.DistortionParams # Nil =>
                 /\ props.DistortionParams.model = "brown_conrady"
                 /\ Len(props.DistortionParams.parameters) <= 5

\* A response with intrinsics and a model name the registry does not know:
\* Properties returned an error and nothing of the response.
DistortionResolvedWitness ==
    /\ call.op = "Properties"
    /\ call.resp.err = NoErr
    /\ call.resp.IntrinsicParameters # Nil
    /\ NamesDistortion(call.resp)
    /\ call.resp.DistortionParameters.Model = "unknown"
    /\ call.out.err # NoErr
    /\ call.out.props = EmptyProperties

\* C15: intrinsics are validated only by Projector.  Properties fails only
\* when the request or the distortion resolution fails, and otherwise returns
\* the intrinsics of the response unchecked (absent when the response has
\* none); Projector fails whenever Properties fails or the intrinsics it
\* returned are absent or invalid, and otherwise returns those intrinsics.
IntrinsicsValidatedByProjector ==
    /\ call.op = "Properties" =>
         LET wire == call.resp.IntrinsicParameters
             got == call.out.props.IntrinsicParams
         IN /\ call.out.err # NoErr =>
                  \/ call.resp.err # NoErr
                  \/ /\ NamesDistortion(call.resp)
                     /\ NewDistorter(call.resp.DistortionParameters.Model,
                                     call.resp.DistortionParameters.Parameters).err # NoErr
            /\ call.out.err = NoErr =>
                  IF wire = Nil THEN got = Nil
                  ELSE /\ got # Nil
                       /\ <<got.Width, got.Height, got.Fx, got.Fy, got.Ppx, got.Ppy>> =
                          <<wire.WidthPx, wire.HeightPx, wire.FocalXPx, wire.FocalYPx,
                            wire.CenterXPx, wire.CenterYPx>>
    /\ call.op = "Projector" =>
         LET p == Properties(call.resp)
         IN IF p.err # NoErr \/ CheckValid(p.props.IntrinsicParams) # NoErr
              THEN call.out.err # NoErr /\ call.out.proj = Nil
              ELSE call.out.err = NoErr /\ call.out.proj = p.props.IntrinsicParams

\* Projector was called on a response whose intrinsics have a zero width,
\* which Properties accepts, and returned an error.
IntrinsicsValidatedWitness ==
    /\ call.op = "Projector"
    /\ call.resp.err = NoErr
    /\ call.resp.IntrinsicParameters # Nil
    /\ call.resp.IntrinsicParameters.WidthPx = 0
    /\ Properties(call.resp).err = NoErr
    /\ call.out.err # NoErr

----------------------------------------------------------------------------
\* C16: generation closure takes precedence in the worker's select.  A
\* worker whose generation signal is closed does not hand a pair to its
\* consumer: every step in which a consumer receives a pair is taken while
\* the signal the worker listens on is open.
ClosurePrecedence ==
    [][\A i \in Streams :
          Len(received'[i]) > Len(received[i]) => healthyLocal[i] \notin closedChans]_vars

\* C17, as stated: a worker that exits because its stream scope is done
\* leaves the frame channel open.
FrameChOpenAfterScopeExit ==
    \A i \in Streams : exitVia[i] = "ctx" => ~frameChClosed[i]

\* C17, amended: a worker closes its frame channel on every exit, through
\* the deferred close; what it does only on the exit through the closed
\* generation signal is to call stream.Close on the stream handle.
StreamClosedOnClosureOnly ==
    \A i \in Streams :
        /\ Exiting(i) => frameChClosed[i]
        /\ streamClosed[i] <=> (Exiting(i) /\ exitVia[i] = "healthy")
        /\ streamClosed[i] => healthyLocal[i] \in closedChans

\* One worker has left through the scope-done return, with its frame channel
\* closed and stream.Close not called by it, another through the closed
\* signal.
StreamClosedWitness ==
    \E i, j \in Streams :
        /\ exitVia[i] = "ctx" /\ frameChClosed[i] /\ ~streamClosed[i]
        /\ exitVia[j] = "healthy" /\ frameChClosed[j] /\ streamClosed[j]

----------------------------------------------------------------------------
\* C18: error-handler protocol.  At every state, also while the pair of the
\* latest Read is offered to the consumer, the handler invocations a worker
\* has made are: none for a Read that succeeded, and for each Read that
\* failed every registered handler exactly once with that Read's error, the
\* Reads in their order and the handlers of one Read in registration order.
\* A step that hands a pair to the consumer invokes no handler.
HandlerProtocol ==
    /\ [](\A i \in Streams :
            LET hc == handlerCalls[i]
                rs == reads[i]
            IN /\ \A k \in 1..Len(hc) :
                     /\ hc[k][1] \in 1..NumHandlers
                     /\ hc[k][2] \in 1..Len(rs)
                     /\ rs[hc[k][2]][2]
               /\ \A n \in 1..Len(rs) : \A h \in 1..NumHandlers :
                     rs[n][2] => Cardinality({k \in 1..Len(hc) : hc[k] = <<h, n>>}) = 1
               /\ \A k, l \in 1..Len(hc) :
                     k < l => \/ hc[k][2] < hc[l][2]
                              \/ hc[k][2] = hc[l][2] /\ hc[k][1] < hc[l][1])
    /\ [][\A i \in Streams :
            received'[i] # received[i] => handlerCalls'[i] = handlerCalls[i]]_vars

\* A worker's first Read failed and its second succeeded; the consumer has
\* received both pairs and the handlers have run for the first only.
HandlerProtocolWitness ==
    \E i \in Streams :
        /\ Len(reads[i]) = 2
        /\ reads[i][1][2] /\ ~reads[i][2][2]
        /\ Len(received[i]) = 2
        /\ Len(handlerCalls[i]) = NumHandlers

\* The Stream calls that have executed Add(1) and whose worker, if one was
\* spawned, has not executed Done.
Outstanding ==
    {i \in Streams : /\ streamPc[i] \in {"returned", "panicked"}
                     /\ workerPc[i] \notin {"DoneRelease", "exited"}}

\* C19: worker accounting.  The WaitGroup counter equals the number of Stream
\* calls that have incremented it and whose worker has not yet exited, and
\* is never negative; it changes only by the one increment of a Stream call,
\* before its worker runs, and by the one decrement of a worker that has
\* left its loop, whichever return it left by.
WorkerAccounting ==
    /\ [](/\ activeBackgroundWorkers.v = Cardinality(Outstanding)
          /\ activeBackgroundWorkers.v >= 0)
    /\ [][/\ activeBackgroundWorkers'.v > activeBackgroundWorkers.v =>
                \E i \in Streams :
                    /\ streamPc[i] = "unlocked" /\ streamPc'[i] # "unlocked"
                    /\ workerPc[i] = "none"
                    /\ activeBackgroundWorkers'.v = activeBackgroundWorkers.v + 1
          /\ \A i \in Streams :
                (workerPc[i] = "Done" /\ workerPc'[i] # "Done") =>
                    /\ exitVia[i] \in {"ctx", "healthy"}
                    /\ activeBackgroundWorkers'.v = activeBackgroundWorkers.v - 1
          /\ activeBackgroundWorkers'.v < activeBackgroundWorkers.v =>
                \E i \in Streams : workerPc[i] = "Done" /\ workerPc'[i] # "Done"]_vars

\* Two workers were counted; one has exited through the scope-done return
\* and the other is still in its loop.
WorkerAccountingWitness ==
    /\ activeBackgroundWorkers.v = 1
    /\ \E i, j \in Streams :
          /\ workerPc[i] = "exited" /\ exitVia[i] = "ctx"
          /\ workerPc[j] \in {"loop", "select"}

\* C20: frame-channel safety.  A stream's frame channel is closed exactly
\* when its worker has left its loop: the worker closes it, once, as it
\* exits, it stays closed, and no pair is sent on it afterwards.
FrameChannelSafety ==
    /\ [](\A i \in Streams : frameChClosed[i] <=> Exiting(i))
    /\ [][\A i \in Streams :
            /\ frameChClosed[i] => frameChClosed'[i] /\ received'[i] = received[i]
            /\ frameChClosed'[i] # frameChClosed[i] =>
                  workerPc[i] \in {"loop", "select"} /\ workerPc'[i] = "Done"
            /\ received'[i] # received[i] => ~frameChClosed'[i]]_vars

\* A worker has sent a pair, then left its loop and exited, its frame channel
\* closed.
FrameChannelWitness ==
    \E i \in Streams :
        /\ Len(received[i]) > 0
        /\ workerPc[i] = "exited"
        /\ frameChClosed[i]
====
